---- MODULE Spec2Model ----
(***************************************************************************)
(* Model of src-tauri/src/db.rs (and the configuration of lib.rs): the two *)
(* tauri commands execute_sql and query_sql, the connector they share, the *)
(* placeholder rewriting, the parameter encoding and the row decoding.     *)
(*                                                                         *)
(* Strings are sequences of one-character strings.  Option<T> is a record  *)
(* [some |-> TRUE, v |-> x] or [some |-> FALSE].  TLC's integers are 32    *)
(* bits wide, so the i64 / u64 / f64 domains are modelled at the reduced   *)
(* widths IntBits and MantBits, which keep the order                       *)
(*     2^MantBits < i64::MAX < u64::MAX                                    *)
(* of the real widths (53, 63 and 64 bits).                                *)
(***************************************************************************)
EXTENDS Integers, Sequences, FiniteSets, TLC

\* The field names of the model's records.  TLC keeps the fields of a record
\* in the order in which it first met their names: they are introduced here in
\* the order in which the definitions below write them, so that every record
\* is built in normal form.
RecordFields ==
    DOMAIN [tag |-> 1, kind |-> 2, ty |-> 3, some |-> 4, k |-> 5, v |-> 6, b |-> 7,
            n |-> 8, s |-> 9, f |-> 10, items |-> 11, m |-> 12, msg |-> 13,
            finite |-> 14, whole |-> 15, half |-> 16, dir |-> 17, by |-> 18,
            ev |-> 19, host |-> 20, port |-> 21, database |-> 22, user |-> 23,
            encryption |-> 24, trust_cert |-> 25, text |-> 26, bound |-> 27,
            counts |-> 28, e |-> 29, row |-> 30, columns |-> 31, data |-> 32,
            owner |-> 33, addr |-> 34, log |-> 35, tcp |-> 36, login |-> 37,
            stmt |-> 38]

\* ------------------------------------------------------------------ bounds

NumCalls == 2        \* concurrent invocations of the two commands
MaxStream == 2       \* items a result stream delivers before it ends (one call)
ConcStream == 1      \* items a result stream delivers before it ends (concurrent calls)
MaxSqlLen == 3       \* characters of a statement text (rewriting specification)
MaxParams == 3       \* parameters of a call (rewriting specification)
IntBits == 6         \* modelled width of i64 / u64
MantBits == 4        \* modelled width of the f64 mantissa

Calls == 1..NumCalls

I64Max == 2^(IntBits - 1) - 1
I64Min == -(2^(IntBits - 1))
U64Max == 2^IntBits - 1

\* ------------------------------------------------------------------ helpers

None == [some |-> FALSE]
Some(x) == [some |-> TRUE, v |-> x]

Min(a, b) == IF a <= b THEN a ELSE b
Max(a, b) == IF a >= b THEN a ELSE b

RECURSIVE Count(_, _)
Count(s, ch) ==
    IF s = <<>> THEN 0
    ELSE (IF Head(s) = ch THEN 1 ELSE 0) + Count(Tail(s), ch)

RECURSIVE SeqsUpTo(_, _)
SeqsUpTo(S, n) ==
    IF n = 0 THEN {<<>>}
    ELSE LET shorter == SeqsUpTo(S, n - 1)
         IN  shorter \cup {Append(s, x) : s \in {t \in shorter : Len(t) = n - 1}, x \in S}

Digits == <<"0", "1", "2", "3", "4", "5", "6", "7", "8", "9">>
Letters == <<"a", "b", "c", "d", "e", "f", "g", "h", "i", "j", "k", "l", "m",
             "n", "o", "p", "q", "r", "s", "t", "u", "v", "w", "x", "y", "z">>

IndexOf(seq, x) == CHOOSE k \in 1..Len(seq) : seq[k] = x

\* The byte of a character, for the characters the model uses (String's Ord
\* compares bytes).
CharCode(ch) ==
    IF \E k \in 1..Len(Digits) : Digits[k] = ch THEN 47 + IndexOf(Digits, ch)
    ELSE IF ch = "?" THEN 63
    ELSE IF ch = "@" THEN 64
    ELSE 96 + IndexOf(Letters, ch)

\* a < b for Rust Strings: lexicographic on bytes.
RECURSIVE StrLess(_, _)
StrLess(a, b) ==
    IF b = <<>> THEN FALSE
    ELSE IF a = <<>> THEN TRUE
    ELSE IF Head(a) # Head(b) THEN CharCode(Head(a)) < CharCode(Head(b))
    ELSE StrLess(Tail(a), Tail(b))

\* ------------------------------------------------- placeholder rewriting

\* format!("{}", i) for an unsigned integer: its decimal digits.
RECURSIVE Decimal(_)
Decimal(i) ==
    IF i < 10 THEN <<Digits[i + 1]>>
    ELSE Append(Decimal(i \div 10), Digits[(i % 10) + 1])

\* format!("@p{}", i)
Token(i) == <<"@", "p">> \o Decimal(i)

\* str::find('?'): the index of the first '?', 0 when there is none.
FindPlaceholder(s) ==
    IF \E k \in 1..Len(s) : s[k] = "?"
    THEN CHOOSE k \in 1..Len(s) : s[k] = "?" /\ \A j \in 1..(k - 1) : s[j] # "?"
    ELSE 0

ReplacenLast(s, tok) ==
    IF \E k \in 1..Len(s) : s[k] = "?"
    THEN LET at == CHOOSE k \in 1..Len(s) :
                       s[k] = "?" /\ \A j \in (k + 1)..Len(s) : s[j] # "?"
         IN  SubSeq(s, 1, at - 1) \o tok \o SubSeq(s, at + 1, Len(s))
    ELSE s

\* processed_sql.replacen('?', tok, 1): the first '?' replaced by tok, the
\* text unchanged when it holds no '?'.
Replacen(s, tok) ==
    LET at == FindPlaceholder(s)
    IN  IF at = 0 THEN s
        ELSE SubSeq(s, 1, at - 1) \o tok \o SubSeq(s, at + 1, Len(s))

\* The loop  for i in 1..=params.len() { processed_sql = replacen(..) }
\* from iteration i on, on the text s.
RECURSIVE RewriteFrom(_, _, _)
RewriteFrom(s, i, n) ==
    IF i > n THEN s
    ELSE RewriteFrom(Replacen(s, Token(i)), i + 1, n)

Rewrite(sqlText, n) == RewriteFrom(sqlText, 1, n)

\* ------------------------------------------------------ generic values

\* serde_json::Number: PosInt(u64), NegInt(i64), Float(f64), and Unrep, a
\* number as_i64 and as_f64 both refuse (one exists only when serde_json is
\* built with arbitrary_precision, e.g. 1e999).  A float is
\* whole + (half ? 1/2 : 0).
PosInt(u) == [kind |-> "PosInt", v |-> u]
NegInt(i) == [kind |-> "NegInt", v |-> i]
Flt(whole, half) == [finite |-> TRUE, whole |-> whole, half |-> half]
NonFinite == [finite |-> FALSE]
Float(f) == [kind |-> "Float", f |-> f]
Unrep == [kind |-> "Unrep"]

VNull == [tag |-> "Null"]
VBool(b) == [tag |-> "Bool", b |-> b]
VNumber(n) == [tag |-> "Number", n |-> n]
VString(s) == [tag |-> "String", s |-> s]
VArray(items) == [tag |-> "Array", items |-> items]
VObject(m) == [tag |-> "Object", m |-> m]

RECURSIVE BitLen(_)
BitLen(u) == IF u = 0 THEN 0 ELSE 1 + BitLen(u \div 2)

\* u as f64, for u >= 0: the nearest value with MantBits significant bits,
\* ties to even.
RoundToMantissa(u) ==
    LET shift == BitLen(u) - MantBits
    IN  IF shift <= 0 THEN u
        ELSE LET ulp == 2^shift
                 q == u \div ulp
                 r == u % ulp
                 up == (2 * r > ulp) \/ (2 * r = ulp /\ q % 2 = 1)
             IN  (IF up THEN q + 1 ELSE q) * ulp

IntToF64(i) ==
    IF i >= 0 THEN Flt(RoundToMantissa(i), FALSE)
    ELSE Flt(-RoundToMantissa(-i), FALSE)

\* Number::as_i64
as_i64(n) ==
    CASE n.kind = "PosInt" -> IF n.v <= I64Max THEN Some(n.v) ELSE None
      [] n.kind = "NegInt" -> Some(n.v)
      [] OTHER -> None

\* Number::as_f64
as_f64(n) ==
    CASE n.kind = "PosInt" -> Some(IntToF64(n.v))
      [] n.kind = "NegInt" -> Some(IntToF64(n.v))
      [] n.kind = "Float" -> Some(n.f)
      [] OTHER -> None

\* Number::from(i) for a signed or unsigned integer i (the i.into() of the
\* decoder).
NumberFromInt(i) == IF i < 0 THEN NegInt(i) ELSE PosInt(i)

\* serde_json::json!(f) for a float: a number when f is finite, else null.
JsonFromFloat(f) == IF f.finite THEN VNumber(Float(f)) ELSE VNull

\* ------------------------------------------------- parameter encoding

PString(s) == [ty |-> "String", s |-> s]
PI64(i) == [ty |-> "I64", v |-> i]
PF64(f) == [ty |-> "F64", f |-> f]
PBool(b) == [ty |-> "Bool", b |-> b]
POptStringNone == [ty |-> "OptString", s |-> None]

json_to_sql_param_strict(val) ==
    CASE val.tag = "String" -> PString(val.s)
      [] val.tag = "Number" ->
            IF as_i64(val.n).some THEN PI64(as_i64(val.n).v)
            ELSE IF as_f64(val.n).some THEN PF64(as_f64(val.n).v)
            ELSE PI64(0)
      [] val.tag = "Bool" -> PBool(val.b)
      [] val.tag = "Array" -> PString(<<"[", "]">>)
      [] OTHER -> POptStringNone

json_to_sql_param(val) ==
    CASE val.tag = "String" -> PString(val.s)
      [] val.tag = "Number" ->
            IF as_i64(val.n).some THEN PI64(as_i64(val.n).v)
            ELSE IF as_f64(val.n).some THEN PF64(as_f64(val.n).v)
            ELSE PI64(0)
      [] val.tag = "Bool" -> PBool(val.b)
      [] OTHER -> POptStringNone

EncodeAllButNull(ps) ==
    LET kept == SelectSeq(ps, LAMBDA v : v.tag # "Null")
    IN  [j \in 1..Len(kept) |-> json_to_sql_param(kept[j])]

\* params.iter().map(json_to_sql_param).collect()
EncodeAll(ps) == [j \in 1..Len(ps) |-> json_to_sql_param(ps[j])]

\* ------------------------------------------------------- row decoding

Col(ty, v) == [ty |-> ty, v |-> v]

\* What a bound parameter is on the wire (tiberius' ToSql for String, i64,
\* f64, bool and Option<String>).
ToSql(p) ==
    CASE p.ty = "String" -> Col("String", Some(p.s))
      [] p.ty = "I64" -> Col("I64", Some(p.v))
      [] p.ty = "F64" -> Col("F64", Some(p.f))
      [] p.ty = "Bool" -> Col("Bit", Some(p.b))
      [] OTHER -> Col("String", None)

HexDigits == <<"0", "1", "2", "3", "4", "5", "6", "7", "8", "9",
               "a", "b", "c", "d", "e", "f">>

\* hex::encode: two lower-case hexadecimal digits a byte.
RECURSIVE HexEncode(_)
HexEncode(bytes) ==
    IF bytes = <<>> THEN <<>>
    ELSE <<HexDigits[(Head(bytes) \div 16) + 1], HexDigits[(Head(bytes) % 16) + 1]>>
         \o HexEncode(Tail(bytes))

\* Uuid's Display: the 16 bytes in lower-case hexadecimal, hyphenated 8-4-4-4-12.
GuidToString(g) ==
    HexEncode(SubSeq(g, 1, 4)) \o <<"-">> \o HexEncode(SubSeq(g, 5, 6)) \o <<"-">>
    \o HexEncode(SubSeq(g, 7, 8)) \o <<"-">> \o HexEncode(SubSeq(g, 9, 10)) \o <<"-">>
    \o HexEncode(SubSeq(g, 11, 16))

column_to_json(data) ==
    IF ~data.v.some THEN VNull
    ELSE CASE data.ty = "Binary" -> VString(HexEncode(data.v.v))
           [] data.ty = "Bit" -> VBool(data.v.v)
           [] data.ty \in {"U8", "I16", "I32", "I64"} -> VNumber(NumberFromInt(data.v.v))
           [] data.ty \in {"F32", "F64"} -> JsonFromFloat(data.v.v)
           [] data.ty = "String" -> VString(data.v.v)
           [] data.ty = "Guid" -> VString(GuidToString(data.v.v))
           [] OTHER -> VNull

\* serde_json::Map as the sequence of its entries [k, v] in iteration order.
\* insert replaces the value of a key the map already holds, in place.  A new
\* key goes to the end with the preserve_order feature (IndexMap) and to its
\* sorted place without it (BTreeMap).
MapInsert(m, k, v, preserve) ==
    IF \E j \in 1..Len(m) : m[j].k = k
    THEN LET at == CHOOSE j \in 1..Len(m) : m[j].k = k
         IN  [m EXCEPT ![at] = [k |-> k, v |-> v]]
    ELSE IF preserve THEN Append(m, [k |-> k, v |-> v])
    ELSE LET before == Cardinality({j \in 1..Len(m) : StrLess(m[j].k, k)})
         IN  SubSeq(m, 1, before) \o <<[k |-> k, v |-> v]>> \o SubSeq(m, before + 1, Len(m))

\* for (name, data) in col_names.into_iter().zip(row.into_iter()) { map.insert(..) }
\* from pair j on.
RECURSIVE ZipInsert(_, _, _, _, _)
ZipInsert(m, names, cells, j, preserve) ==
    IF j > Min(Len(names), Len(cells)) THEN m
    ELSE ZipInsert(MapInsert(m, names[j], column_to_json(cells[j]), preserve),
                   names, cells, j + 1, preserve)

\* The Value::Object built for one QueryItem::Row.
BuildRecord(row, preserve) ==
    VObject(ZipInsert(<<>>, row.columns, row.data, 1, preserve))

PushRowDedup(rs, rec) ==
    IF rs # <<>> /\ rs[Len(rs)] = rec THEN rs ELSE Append(rs, rec)

\* rows.push(Value::Object(map))
PushRow(rs, rec) == Append(rs, rec)

\* --------------------------------------------------------------- results

Pending == [tag |-> "Pending"]
Ok(v) == [tag |-> "Ok", v |-> v]
Err(msg) == [tag |-> "Err", msg |-> msg]

\* tiberius::error::Error's Display, by the kind of the error.
ErrorToString(e) ==
    CASE e = "Io" -> "An error occured during the attempt of performing I/O"
      [] e = "Tls" -> "Error forming TLS connection"
      [] e = "Server" -> "Token error"
      [] OTHER -> "Protocol error"

\* res.rows_affected().first().cloned().unwrap_or(0)
FirstAffected(counts) == IF counts = <<>> THEN 0 ELSE counts[1]

OnStreamErrorPartial(rs, e) == Ok(VArray(rs))

\* stream.try_next().await.map_err(|e| e.to_string())?  on a failure: the
\* rows decoded so far are dropped with the frame.
OnStreamError(rs, e) == Err(ErrorToString(e))

\* ----------------------------------------------------------------- state

VARIABLES
    config,         \* DbState.config, managed by the application
    preserve_order, \* whether serde_json is built with its preserve_order feature
    pc,             \* where each call is
    cmd,            \* the command each call invokes: "execute" or "query"
    sql,            \* each call's sql argument
    params,         \* each call's params argument
    processed_sql,  \* the local processed_sql
    sql_params,     \* the local sql_params
    rows,           \* the local rows of query_sql
    client,         \* the local client: the connection it owns, 0 while it has none
    result,         \* what the call returned
    open,           \* the connections that are open
    wire,           \* per connection: who opened it and what went over it
    attempts        \* per call: transport connects, logins and statements started

vars == <<config, preserve_order, pc, cmd, sql, params, processed_sql, sql_params,
          rows, client, result, open, wire, attempts>>

\* The configuration run() builds and hands to manage().
TheConfig ==
    [host |-> "sql-db-a.database.windows.net", port |-> 1433,
     database |-> "free-sql-db-3095376", user |-> "CloudSA271ce787@sql-db-a",
     encryption |-> "Required", trust_cert |-> TRUE]

Commands == {"execute", "query"}

Init ==
    /\ config = TheConfig
    /\ preserve_order \in BOOLEAN
    /\ pc = [c \in Calls |-> "idle"]
    /\ cmd = [c \in Calls |-> "none"]
    /\ sql = [c \in Calls |-> <<>>]
    /\ params = [c \in Calls |-> <<>>]
    /\ processed_sql = [c \in Calls |-> <<>>]
    /\ sql_params = [c \in Calls |-> <<>>]
    /\ rows = [c \in Calls |-> <<>>]
    /\ client = [c \in Calls |-> 0]
    /\ result = [c \in Calls |-> Pending]
    /\ open = {}
    /\ wire = <<>>
    /\ attempts = [c \in Calls |-> [tcp |-> 0, login |-> 0, stmt |-> 0]]

\* What the server sent on connection id, in order.
Responses(id) == SelectSeq(wire[id].log, LAMBDA ev : ev.dir = "in")

\* The items the result stream of connection id has delivered.
Delivered(id) == SelectSeq(wire[id].log, LAMBDA ev : ev.dir = "in" /\ ev.ev \in {"row", "meta"})

SharedSession(c) == CHOOSE id \in open : TRUE

\* The connection the call's client writes to and reads from.
Session(c) == client[c]

Transmit(c, ev) == [wire EXCEPT ![Session(c)].log = Append(@, ev)]

ReturnLeakOnError(c, res) ==
    /\ result' = [result EXCEPT ![c] = res]
    /\ pc' = [pc EXCEPT ![c] = "done"]
    /\ open' = IF res.tag = "Err" THEN open ELSE open \ {client[c]}
    /\ client' = [client EXCEPT ![c] = 0]

\* The command returns res: its locals go out of scope, and dropping the
\* client (or the socket it was to be built on) closes the connection.
Return(c, res) ==
    /\ result' = [result EXCEPT ![c] = res]
    /\ pc' = [pc EXCEPT ![c] = "done"]
    /\ open' = open \ {client[c]}
    /\ client' = [client EXCEPT ![c] = 0]

\* The hosting application invokes a command (db.rs 61-62, 87-88).
Invoke(c, k, s, ps) ==
    /\ pc[c] = "idle"
    /\ cmd' = [cmd EXCEPT ![c] = k]
    /\ sql' = [sql EXCEPT ![c] = s]
    /\ params' = [params EXCEPT ![c] = ps]
    /\ pc' = [pc EXCEPT ![c] = "tcp"]
    /\ UNCHANGED <<config, preserve_order, processed_sql, sql_params, rows, client,
                   result, open, wire, attempts>>

\* TcpStream::connect(config.get_addr()).await succeeds.
ConnectTcp(c) ==
    /\ pc[c] = "tcp"
    /\ attempts' = [attempts EXCEPT ![c].tcp = @ + 1]
    /\ wire' = Append(wire, [owner |-> c, addr |-> <<config.host, config.port>>, log |-> <<>>])
    /\ client' = [client EXCEPT ![c] = Len(wire) + 1]
    /\ open' = open \cup {Len(wire) + 1}
    /\ pc' = [pc EXCEPT ![c] = "nodelay"]
    /\ UNCHANGED <<config, preserve_order, cmd, sql, params, processed_sql, sql_params,
                   rows, result>>

ConnectTcpRetry(c, e) ==
    /\ pc[c] = "tcp"
    /\ attempts' = [attempts EXCEPT ![c].tcp = @ + 1]
    /\ IF attempts[c].tcp < 2
       THEN UNCHANGED <<pc, result, open, client>>
       ELSE Return(c, Err(ErrorToString(e)))
    /\ UNCHANGED <<config, preserve_order, cmd, sql, params, processed_sql, sql_params,
                   rows, wire>>

\* TcpStream::connect fails: connect returns the error, the command maps it
\* to its string and returns it.
ConnectTcpFail(c, e) ==
    /\ pc[c] = "tcp"
    /\ attempts' = [attempts EXCEPT ![c].tcp = @ + 1]
    /\ Return(c, Err(ErrorToString(e)))
    /\ UNCHANGED <<config, preserve_order, cmd, sql, params, processed_sql, sql_params,
                   rows, wire>>

\* tcp.set_nodelay(true) succeeds.
SetNodelay(c) ==
    /\ pc[c] = "nodelay"
    /\ pc' = [pc EXCEPT ![c] = "handshake"]
    /\ UNCHANGED <<config, preserve_order, cmd, sql, params, processed_sql, sql_params,
                   rows, client, result, open, wire, attempts>>

\* tcp.set_nodelay(true) fails: the socket is dropped.
SetNodelayFail(c, e) ==
    /\ pc[c] = "nodelay"
    /\ Return(c, Err(ErrorToString(e)))
    /\ UNCHANGED <<config, preserve_order, cmd, sql, params, processed_sql, sql_params,
                   rows, wire, attempts>>

\* Client::connect(config.clone(), ..).await succeeds: connect returns the client.
ClientConnect(c) ==
    /\ pc[c] = "handshake"
    /\ attempts' = [attempts EXCEPT ![c].login = @ + 1]
    /\ wire' = Transmit(c, [dir |-> "out", by |-> c, ev |-> "login", user |-> config.user])
    /\ pc' = [pc EXCEPT ![c] = "connected"]
    /\ UNCHANGED <<config, preserve_order, cmd, sql, params, processed_sql, sql_params,
                   rows, client, result, open>>

\* Client::connect fails (handshake, encryption, authentication).
ClientConnectFail(c, e) ==
    /\ pc[c] = "handshake"
    /\ attempts' = [attempts EXCEPT ![c].login = @ + 1]
    /\ wire' = Transmit(c, [dir |-> "out", by |-> c, ev |-> "login", user |-> config.user])
    /\ Return(c, Err(ErrorToString(e)))
    /\ UNCHANGED <<config, preserve_order, cmd, sql, params, processed_sql, sql_params, rows>>

\* The placeholders are rewritten, the parameters encoded, and the statement
\* goes to the server with client.execute or client.query (db.rs 68-76, 94-102).
Submit(c) ==
    /\ pc[c] = "connected"
    /\ processed_sql' = [processed_sql EXCEPT ![c] = Rewrite(sql[c], Len(params[c]))]
    /\ sql_params' = [sql_params EXCEPT ![c] = EncodeAll(params[c])]
    /\ attempts' = [attempts EXCEPT ![c].stmt = @ + 1]
    /\ wire' = Transmit(c, [dir |-> "out", by |-> c, ev |-> cmd[c],
                            text |-> processed_sql'[c],
                            bound |-> [j \in 1..Len(sql_params'[c]) |-> ToSql(sql_params'[c][j])]])
    /\ pc' = [pc EXCEPT ![c] = "sent"]
    /\ UNCHANGED <<config, preserve_order, cmd, sql, params, rows, client, result, open>>

\* client.execute(..).await succeeds: the first count, or 0, is returned.
ExecuteOk(c, counts) ==
    /\ pc[c] = "sent" /\ cmd[c] = "execute"
    /\ wire' = Transmit(c, [dir |-> "in", ev |-> "counts", counts |-> counts])
    /\ Return(c, Ok(FirstAffected(counts)))
    /\ UNCHANGED <<config, preserve_order, cmd, sql, params, processed_sql, sql_params,
                   rows, attempts>>

\* client.execute(..).await fails.
ExecuteErr(c, e) ==
    /\ pc[c] = "sent" /\ cmd[c] = "execute"
    /\ wire' = Transmit(c, [dir |-> "in", ev |-> "error", e |-> e])
    /\ Return(c, Err(ErrorToString(e)))
    /\ UNCHANGED <<config, preserve_order, cmd, sql, params, processed_sql, sql_params,
                   rows, attempts>>

\* client.query(..).await succeeds: the stream is there, rows is empty.
QueryOk(c) ==
    /\ pc[c] = "sent" /\ cmd[c] = "query"
    /\ rows' = [rows EXCEPT ![c] = <<>>]
    /\ pc' = [pc EXCEPT ![c] = "stream"]
    /\ UNCHANGED <<config, preserve_order, cmd, sql, params, processed_sql, sql_params,
                   client, result, open, wire, attempts>>

\* client.query(..).await fails.
QueryErr(c, e) ==
    /\ pc[c] = "sent" /\ cmd[c] = "query"
    /\ wire' = Transmit(c, [dir |-> "in", ev |-> "error", e |-> e])
    /\ Return(c, Err(ErrorToString(e)))
    /\ UNCHANGED <<config, preserve_order, cmd, sql, params, processed_sql, sql_params,
                   rows, attempts>>

\* stream.try_next() yields QueryItem::Row(row): its Record is pushed.  (cap
\* bounds the items the server's stream holds.)
TryNextRow(c, row, cap) ==
    /\ pc[c] = "stream"
    /\ Len(Delivered(Session(c))) < cap
    /\ wire' = Transmit(c, [dir |-> "in", ev |-> "row", row |-> row])
    /\ rows' = [rows EXCEPT ![c] = PushRow(@, BuildRecord(row, preserve_order))]
    /\ UNCHANGED <<config, preserve_order, pc, cmd, sql, params, processed_sql, sql_params,
                   client, result, open, attempts>>

\* stream.try_next() yields another item (QueryItem::Metadata): ignored.
TryNextMetadata(c, cap) ==
    /\ pc[c] = "stream"
    /\ Len(Delivered(Session(c))) < cap
    /\ wire' = Transmit(c, [dir |-> "in", ev |-> "meta"])
    /\ UNCHANGED <<config, preserve_order, pc, cmd, sql, params, processed_sql, sql_params,
                   rows, client, result, open, attempts>>

\* stream.try_next() yields None: the rows are returned.
TryNextEnd(c) ==
    /\ pc[c] = "stream"
    /\ wire' = Transmit(c, [dir |-> "in", ev |-> "end"])
    /\ Return(c, Ok(VArray(rows[c])))
    /\ UNCHANGED <<config, preserve_order, cmd, sql, params, processed_sql, sql_params,
                   rows, attempts>>

\* stream.try_next() fails.
TryNextErr(c, e) ==
    /\ pc[c] = "stream"
    /\ wire' = Transmit(c, [dir |-> "in", ev |-> "error", e |-> e])
    /\ Return(c, OnStreamError(rows[c], e))
    /\ UNCHANGED <<config, preserve_order, cmd, sql, params, processed_sql, sql_params,
                   rows, attempts>>

\* ------------------------------------------------------- specifications

TransportErrors == {"Io"}
HandshakeErrors == {"Tls", "Server"}
StatementErrors == {"Server"}
StreamErrors == {"Io"}

\* The affected-row counts a statement may report: none, one, several.
CountLists == {<<>>, <<1>>, <<2, 0>>}

\* The steps of a call that is under way, but for the rows its stream delivers.
Steps(c, cap) ==
    \/ ConnectTcp(c)
    \/ \E e \in TransportErrors : ConnectTcpFail(c, e)
    \/ SetNodelay(c)
    \/ \E e \in TransportErrors : SetNodelayFail(c, e)
    \/ ClientConnect(c)
    \/ \E e \in HandshakeErrors : ClientConnectFail(c, e)
    \/ Submit(c)
    \/ \E counts \in CountLists : ExecuteOk(c, counts)
    \/ \E e \in StatementErrors : ExecuteErr(c, e)
    \/ QueryOk(c)
    \/ \E e \in StatementErrors : QueryErr(c, e)
    \/ TryNextMetadata(c, cap)
    \/ TryNextEnd(c)
    \/ \E e \in StreamErrors : TryNextErr(c, e)

IdRow(i) == [columns |-> <<<<"i", "d">>>>, data |-> <<Col("I32", Some(i))>>]

\* Concurrent calls of both commands against a server with a one-column table.
Next ==
    \E c \in Calls :
        \/ \E k \in Commands : Invoke(c, k, <<"?">>, <<VNumber(PosInt(1))>>)
        \/ Steps(c, ConcStream)
        \/ TryNextRow(c, IdRow(1), ConcStream)

Spec == Init /\ [][Next]_vars

\* One call, over every statement text and every parameter count.
SqlAlphabet == {"?", "a", "p"}
SqlTexts == SeqsUpTo(SqlAlphabet, MaxSqlLen)
ParamList(n) == [j \in 1..n |-> IF j % 2 = 0 THEN VNull ELSE VString(<<"a">>)]

NextRewrite ==
    \/ \E k \in Commands, s \in SqlTexts, n \in 0..MaxParams : Invoke(1, k, s, ParamList(n))
    \/ Steps(1, MaxStream)
    \/ TryNextRow(1, IdRow(1), MaxStream)

SpecRewrite == Init /\ [][NextRewrite]_vars

\* One call with one parameter, over every shape of generic value, against a
\* server that echoes the bound parameters as the columns of one row.
GenericValues ==
    {VNull, VBool(TRUE), VBool(FALSE),
     VString(<<>>), VString(<<"a", "b", "c">>),
     VArray(<<>>), VArray(<<VNull>>),
     VObject(<<>>), VObject(<<[k |-> <<"a">>, v |-> VObject(<<>>)]>>)}
    \cup {VNumber(PosInt(u)) : u \in {0, 1, I64Max, I64Max + 1, I64Max + 2, U64Max}}
    \cup {VNumber(NegInt(i)) : i \in {-1, I64Min}}
    \cup {VNumber(Float(f)) : f \in {Flt(1, FALSE), Flt(1, TRUE), Flt(-2, TRUE)}}
    \cup {VNumber(Unrep)}

Statements(id) ==
    SelectSeq(wire[id].log, LAMBDA ev : ev.dir = "out" /\ ev.ev \in Commands)

EchoRow(c) ==
    LET bound == Statements(Session(c))[1].bound
    IN  [columns |-> [j \in 1..Len(bound) |-> <<"v">> \o Decimal(j)], data |-> bound]

NextCodec ==
    \/ \E k \in Commands, v \in GenericValues : Invoke(1, k, <<"?">>, <<v>>)
    \/ Steps(1, MaxStream)
    \/ TryNextRow(1, EchoRow(1), MaxStream)

SpecCodec == Init /\ [][NextCodec]_vars

\* One call against a server whose rows have columns of every kind, in any
\* order, with names that repeat (ServerRows lists the rows it may deliver).
ColId == <<"i", "d">>
ColName == <<"n", "a", "m", "e">>
AGuid == <<222, 173, 190, 239, 0, 1, 2, 3, 4, 5, 6, 7, 8, 9, 10, 255>>

ServerRows ==
  <<[columns |-> <<ColId, ColName>>, data |-> <<Col("I32", Some(1)), Col("String", Some(<<"a">>))>>],
     [columns |-> <<ColName, ColId>>, data |-> <<Col("String", None), Col("I64", Some(-1))>>],
     [columns |-> <<ColId, ColId>>, data |-> <<Col("U8", Some(1)), Col("I16", Some(2))>>],
     [columns |-> <<ColId, ColName>>, data |-> <<Col("Binary", Some(<<222, 173>>)), Col("Bit", Some(TRUE))>>],
     [columns |-> <<ColId, ColName>>, data |-> <<Col("F64", Some(Flt(1, TRUE))), Col("F32", Some(NonFinite))>>],
     [columns |-> <<ColId, ColName>>, data |-> <<Col("Guid", Some(AGuid)), Col("DateTime", Some(0))>>]>>

NextRows ==
    \/ \E k \in Commands : Invoke(1, k, <<"?">>, <<VNumber(PosInt(1))>>)
    \/ Steps(1, MaxStream)
    \/ \E k \in 1..Len(ServerRows) : TryNextRow(1, ServerRows[k], MaxStream)

SpecRows == Init /\ [][NextRows]_vars

\* ---------------------------------------------------------------- claims

\* The connections call c opened.
ConnsOf(c) == {id \in 1..Len(wire) : wire[id].owner = c}

\* The rows the server delivered on connection id, in delivery order.
RowItems(id) == SelectSeq(wire[id].log, LAMBDA ev : ev.dir = "in" /\ ev.ev = "row")

\* The failures the server or the transport reported on connection id.
Failures(id) == SelectSeq(wire[id].log, LAMBDA ev : ev.dir = "in" /\ ev.ev = "error")

StreamEnded(id) == \E k \in 1..Len(wire[id].log) : wire[id].log[k].ev = "end"

CountsReported(id) == SelectSeq(wire[id].log, LAMBDA ev : ev.dir = "in" /\ ev.ev = "counts")

InFlight(c) == pc[c] \notin {"idle", "done"}

\* C1: a call returns nothing before it is done, and then either one value
\* (the count of execute; for query the list with one Record per row of a
\* stream that ended without a failure) or one error string and nothing else;
\* a failure on the connection, also after rows were decoded, gives the error.
C1_NoPartialResult ==
    \A c \in Calls :
        /\ pc[c] # "done" => result[c] = Pending
        /\ pc[c] = "done" =>
            /\ result[c].tag \in {"Ok", "Err"}
            /\ result[c].tag = "Err" => DOMAIN result[c] = {"tag", "msg"}
            /\ result[c].tag = "Ok" => DOMAIN result[c] = {"tag", "v"}
            /\ ConnsOf(c) = {} => result[c].tag = "Err"
            /\ \A id \in ConnsOf(c) :
                /\ Failures(id) # <<>> =>
                       /\ Len(Failures(id)) = 1
                       /\ result[c] = Err(ErrorToString(Failures(id)[1].e))
                /\ (cmd[c] = "query" /\ result[c].tag = "Ok") =>
                       /\ StreamEnded(id)
                       /\ Failures(id) = <<>>
                       /\ result[c].v.tag = "Array"
                       /\ Len(result[c].v.items) = Len(RowItems(id))
                /\ (cmd[c] = "execute" /\ result[c].tag = "Ok") =>
                       /\ Len(CountsReported(id)) = 1
                       /\ result[c].v \in Nat

\* A query whose stream failed after at least one row was decoded has returned.
C1_Witness ==
    \E c \in Calls : \E id \in ConnsOf(c) :
        /\ pc[c] = "done" /\ cmd[c] = "query"
        /\ Len(RowItems(id)) >= 1 /\ Failures(id) # <<>>
        /\ result[c].tag = "Err"

\* The positional tokens in a rewritten text (a statement text of SqlTexts
\* holds no '@' of its own).
TokensIn(text) == Count(text, "@")

\* C2 as stated: in every statement sent, the number of bound parameters
\* equals the number of positional tokens in the rewritten text and the
\* length of the input parameter list.
C2_CountsAllEqual ==
    \A id \in 1..Len(wire) : \A k \in 1..Len(Statements(id)) :
        LET st == Statements(id)[k]
        IN  /\ Len(st.bound) = TokensIn(st.text)
            /\ Len(st.bound) = Len(params[st.by])

\* C2 as amended: in every statement sent, the number of bound parameters
\* equals the length of the input parameter list, and the number of
\* positional tokens in the rewritten text is the smaller of that length and
\* the number of '?' in the input text.
C2_BoundEqualsInput ==
    \A id \in 1..Len(wire) : \A k \in 1..Len(Statements(id)) :
        LET st == Statements(id)[k]
        IN  /\ Len(st.bound) = Len(params[st.by])
            /\ TokensIn(st.text) = Min(Count(sql[st.by], "?"), Len(params[st.by]))

\* A statement went out with more parameters than its text has placeholders.
C2_Witness ==
    \E id \in 1..Len(wire) : \E k \in 1..Len(Statements(id)) :
        LET st == Statements(id)[k]
        IN  /\ Count(sql[st.by], "?") = 1
            /\ Len(params[st.by]) = 3
            /\ Len(st.bound) = 3

\* The rewriting stated in one pass: going left to right, the i-th '?' becomes
\* the token of i while i <= n, and every other character stays.
RECURSIVE ExpectedRewrite(_, _, _)
ExpectedRewrite(s, i, n) ==
    IF s = <<>> THEN <<>>
    ELSE IF Head(s) = "?" /\ i <= n
         THEN <<"@", "p">> \o Decimal(i) \o ExpectedRewrite(Tail(s), i + 1, n)
         ELSE <<Head(s)>> \o ExpectedRewrite(Tail(s), i, n)

\* C3: the rewritten text of a call that sent its statement is the input text
\* with its i-th '?' replaced by @p<i> for i up to the parameter count, later
\* '?' and all other characters kept in place; with as many '?' as parameters
\* no '?' remains.
C3_RewriteIsPositional ==
    \A c \in Calls :
        attempts[c].stmt = 1 =>
            LET n == Len(params[c])
                k == Count(sql[c], "?")
            IN  /\ processed_sql[c] = ExpectedRewrite(sql[c], 1, n)
                /\ Count(processed_sql[c], "?") = Max(k - n, 0)
                /\ Count(processed_sql[c], "@") = Min(k, n)
                /\ k = n => Count(processed_sql[c], "?") = 0

\* A text with two '?' around a 'p' was rewritten for one parameter.
C3_Witness ==
    \E c \in Calls :
        /\ attempts[c].stmt = 1
        /\ sql[c] = <<"?", "p", "?">>
        /\ Len(params[c]) = 1
        /\ processed_sql[c] = <<"@", "p", "1", "p", "?">>

\* C4: the Record of every decoded row has the row's column names as its
\* keys, as many and in the same order, each with the decoded cell of that
\* column.
C4_RecordKeysAreColumns ==
    \A c \in Calls : \A id \in ConnsOf(c) :
        (cmd[c] = "query" /\ pc[c] \in {"stream", "done"}) =>
            \A j \in 1..Len(rows[c]) :
                LET row == RowItems(id)[j].row
                    rec == rows[c][j]
                IN  /\ Len(rec.m) = Len(row.columns)
                    /\ \A q \in 1..Len(row.columns) : rec.m[q].k = row.columns[q]
                    /\ \A q \in 1..Len(row.columns) : rec.m[q].v = column_to_json(row.data[q])

\* The Records of the rows delivered on connection id.
RecordsOf(id) ==
    [j \in 1..Len(RowItems(id)) |-> BuildRecord(RowItems(id)[j].row, preserve_order)]

\* C5: while a query reads its stream, and in the list it returns, there is
\* one Record for each row delivered, in delivery order, and nothing for any
\* other item.
C5_RowsInDeliveryOrder ==
    \A c \in Calls : \A id \in ConnsOf(c) :
        cmd[c] = "query" =>
            /\ pc[c] = "stream" => rows[c] = RecordsOf(id)
            /\ (pc[c] = "done" /\ result[c].tag = "Ok") => result[c].v = VArray(RecordsOf(id))

\* A query returned two Records for a stream of two identical rows.
C5_Witness ==
    \E c \in Calls : \E id \in ConnsOf(c) :
        /\ pc[c] = "done" /\ cmd[c] = "query" /\ result[c].tag = "Ok"
        /\ Len(RowItems(id)) = 2
        /\ RowItems(id)[1].row = RowItems(id)[2].row
        /\ Len(result[c].v.items) = 2

\* The connections that carry a statement of call c.
StatementsBy(c) ==
    {id \in 1..Len(wire) :
        \E k \in 1..Len(wire[id].log) :
            /\ wire[id].log[k].dir = "out"
            /\ wire[id].log[k].ev \in Commands
            /\ wire[id].log[k].by = c}

\* C6: no call starts a transport connect, a login or a statement twice; and
\* a call that ends in its connection step has made one transport connect,
\* sent no statement and returned an error.
C6_OneAttemptNoRetry ==
    /\ [](\A c \in Calls :
            attempts[c].tcp <= 1 /\ attempts[c].login <= 1 /\ attempts[c].stmt <= 1)
    /\ [][\A c \in Calls :
            (pc[c] \in {"tcp", "nodelay", "handshake"} /\ pc'[c] = "done") =>
                /\ result'[c].tag = "Err"
                /\ attempts'[c].tcp = 1
                /\ attempts'[c].stmt = 0
                /\ StatementsBy(c)' = {}]_vars

\* A call whose login failed has returned.
C6_Witness ==
    \E c \in Calls :
        /\ pc[c] = "done" /\ result[c].tag = "Err"
        /\ attempts[c] = [tcp |-> 1, login |-> 1, stmt |-> 0]

\* What a finished call returns, read from the responses on connection id.
OutcomeOn(id) ==
    IF Failures(id) # <<>> THEN Err(ErrorToString(Failures(id)[1].e))
    ELSE IF CountsReported(id) # <<>> THEN Ok(FirstAffected(CountsReported(id)[1].counts))
    ELSE Ok(VArray(RecordsOf(id)))

\* C9: the configuration never changes; calls that hold a connection hold
\* different ones; each call opens at most one; everything written to a
\* connection is written by the call that opened it and is that call's own
\* command, rewritten text and encoded parameters; and the result of a call
\* that got a response is determined by the responses on its own connection.
C9_CallsShareNothing ==
    /\ config = TheConfig
    /\ \A c1, c2 \in Calls :
           (c1 # c2 /\ client[c1] # 0 /\ client[c2] # 0) => client[c1] # client[c2]
    /\ \A c \in Calls :
           /\ Cardinality(ConnsOf(c)) <= 1
           /\ client[c] # 0 => client[c] \in ConnsOf(c)
    /\ \A id \in 1..Len(wire) : \A k \in 1..Len(wire[id].log) :
           LET ev == wire[id].log[k]
           IN  ev.dir = "out" =>
                   /\ ev.by = wire[id].owner
                   /\ ev.ev \in Commands =>
                          /\ ev.ev = cmd[ev.by]
                          /\ ev.text = Rewrite(sql[ev.by], Len(params[ev.by]))
                          /\ ev.bound = [j \in 1..Len(params[ev.by]) |->
                                            ToSql(json_to_sql_param(params[ev.by][j]))]
    /\ \A c \in Calls : \A id \in ConnsOf(c) :
           (pc[c] = "done" /\ Responses(id) # <<>>) => result[c] = OutcomeOn(id)

\* Two calls are reading their streams at once, each with an item delivered.
C9_Witness ==
    \E c1, c2 \in Calls :
        /\ c1 # c2
        /\ pc[c1] = "stream" /\ pc[c2] = "stream"
        /\ Len(Delivered(client[c1])) >= 1
        /\ Len(Delivered(client[c2])) >= 1

\* C10: a call that has not started or has returned holds no connection and
\* has none open; the open connections are exactly those the calls under way
\* hold, so they are no more than those calls and none when every call has
\* returned.
C10_NoSessionOutlivesCall ==
    /\ \A c \in Calls :
           ~InFlight(c) => (client[c] = 0 /\ ConnsOf(c) \cap open = {})
    /\ open = {client[c] : c \in {d \in Calls : client[d] # 0}}
    /\ Cardinality(open) <= Cardinality({c \in Calls : InFlight(c)})
    /\ (\A c \in Calls : ~InFlight(c)) => open = {}

\* Every call has returned: one after its stream failed behind a row, one
\* with a result.
C10_Witness ==
    /\ \A c \in Calls : pc[c] = "done"
    /\ \E c \in Calls : \E id \in ConnsOf(c) :
           Len(RowItems(id)) >= 1 /\ Failures(id) # <<>>
    /\ \E c \in Calls : result[c].tag = "Ok"
    /\ open = {}

\* The generic values the round trip is claimed for: null, booleans, integer
\* and floating numbers, strings.
Supported(val) ==
    \/ val.tag \in {"Null", "Bool", "String"}
    \/ val.tag = "Number" /\ val.n.kind \in {"PosInt", "NegInt", "Float"}

\* The shapes the encoder has no parameter type for.
Unsupported(val) ==
    \/ val.tag \in {"Null", "Array", "Object"}
    \/ val.tag = "Number" /\ val.n.kind = "Unrep"

\* C7: against the echoing server, every Record a query decodes holds, for a
\* parameter that is null, a boolean, a number or a string, exactly the
\* parameter's value in the column that echoes it.
C7_EchoRoundTrip ==
    \A c \in Calls :
        (cmd[c] = "query" /\ pc[c] \in {"stream", "done"}) =>
            \A j \in 1..Len(rows[c]) : \A q \in 1..Len(params[c]) :
                Supported(params[c][q]) => rows[c][j].m[q].v = params[c][q]

\* C8 as stated: every parameter of a statement sent is encoded, and each
\* null, array, object and unrepresentable number is the typed null.
C8_UnsupportedIsTypedNull ==
    \A c \in Calls :
        attempts[c].stmt = 1 =>
            /\ Len(sql_params[c]) = Len(params[c])
            /\ \A j \in 1..Len(params[c]) :
                   Unsupported(params[c][j]) => sql_params[c][j] = POptStringNone

\* C8 as amended: every parameter of a statement sent is encoded as a bound
\* parameter and the call has not failed by then; each null, array and object
\* is the typed null, and an unrepresentable number is the integer 0.
C8_EncodingIsTotal ==
    \A c \in Calls :
        /\ pc[c] = "sent" => result[c] = Pending
        /\ attempts[c].stmt = 1 =>
            /\ Len(sql_params[c]) = Len(params[c])
            /\ \A j \in 1..Len(params[c]) :
                   /\ sql_params[c][j].ty \in {"String", "I64", "F64", "Bool", "OptString"}
                   /\ params[c][j].tag \in {"Null", "Array", "Object"} =>
                          sql_params[c][j] = POptStringNone
                   /\ (params[c][j].tag = "Number" /\ params[c][j].n.kind = "Unrep") =>
                          sql_params[c][j] = PI64(0)

\* A statement with a nested object for its parameter is on its way.
C8_Witness ==
    \E c \in Calls :
        /\ pc[c] = "sent"
        /\ params[c] = <<VObject(<<[k |-> <<"a">>, v |-> VObject(<<>>)]>>)>>
        /\ sql_params[c] = <<POptStringNone>>

====
